---------------------------- MODULE Spec2Model ----------------------------
(***************************************************************************)
(* Model of the place canvas client:                                       *)
(*   - canvasse.js : a display canvas and a hidden buffer canvas, the      *)
(*     drawing primitives on both, the two blits between them and the      *)
(*     sparse-state loader writeStateToBuffer;                             *)
(*   - utils.js    : hijack, the method wrapping utility.                  *)
(*                                                                         *)
(* The 2D canvas API is modelled at pixel level.  A pixel is a record of   *)
(* four 8 bit channels.  fillRect and drawImage composite with the default *)
(* "source-over" operator, clearRect and putImageData write raw pixels,    *)
(* assigning a canvas' width resets its bitmap to transparent black, and   *)
(* a store outside a typed array's index range is ignored.                 *)
(***************************************************************************)
EXTENDS Integers, Sequences, FiniteSets

\* ----------------------------------------------------------------- bounds
\* Largest number of pixels (width * height) of a canvas passed to init.
MaxPixels == 2
\* Longest state list handed to writeStateToBuffer: when every canvasse call
\* may interleave with it, and when only the buffer is drawn to around it.
MaxLiveUpdates == 1
MaxUpdates == 2
\* Longest state list handed to writeStateToBuffer when its coordinates may
\* lie outside the canvas, and how far outside they may lie.
MaxStrayUpdates == 1
MaxMargin == 2
\* Largest number of hijack calls on the target object.
MaxHijacks == 3

\* ------------------------------------------------------------ css colors
\* A css hex color is the sequence of its characters, "#" first.
HexChars == {"0", "1", "2", "3", "4", "5", "6", "7",
             "8", "9", "a", "b", "c", "d", "e", "f"}

HexTable ==
    [ch \in HexChars |->
        CASE ch = "0" -> 0  [] ch = "1" -> 1  [] ch = "2" -> 2  [] ch = "3" -> 3
          [] ch = "4" -> 4  [] ch = "5" -> 5  [] ch = "6" -> 6  [] ch = "7" -> 7
          [] ch = "8" -> 8  [] ch = "9" -> 9  [] ch = "a" -> 10 [] ch = "b" -> 11
          [] ch = "c" -> 12 [] ch = "d" -> 13 [] ch = "e" -> 14 [] ch = "f" -> 15]

\* The value of one hex digit.
HexVal(ch) == HexTable[ch]

\* The colors the callers draw with: "#ff0000" and "#0a5bc1".
Palette == { <<"#", "f", "f", "0", "0", "0", "0">>,
             <<"#", "0", "a", "5", "b", "c", "1">> }

NoColor == << >>

\* parseInt(str, 16) on a string of hex digits.
RECURSIVE ParseDigits(_, _)
ParseDigits(str, n) ==
    IF n = 0 THEN 0
    ELSE 16 * ParseDigits(str, n - 1) + HexVal(str[n])

ParseInt16(str) == ParseDigits(str, Len(str))

\* canvasse.js parseHexColor: slice(1), parseInt(.., 16), shifts and masks.
parseHexColor(hexColor) ==
    LET colorVal == ParseInt16(Tail(hexColor))
    IN  [ red   |-> (colorVal \div 65536) % 256,
          green |-> (colorVal \div 256) % 256,
          blue  |-> colorVal % 256 ]

\* parseHexColor tabulated over the palette (the callers pass no other
\* string), so that it is evaluated once per color.
ParsedColor == [hexColor \in Palette |-> parseHexColor(hexColor)]

\* ---------------------------------------------------------------- pixels
Pixel(r, g, b, a) == [red |-> r, green |-> g, blue |-> b, alpha |-> a]

Transparent == Pixel(0, 0, 0, 0)

IsOpaque(p) == p.alpha = 255

\* What assigning a "#rrggbb" string to fillStyle makes the context paint:
\* one byte per pair of digits, fully opaque.
FillStyle(color) ==
    Pixel(16 * HexVal(color[2]) + HexVal(color[3]),
          16 * HexVal(color[4]) + HexVal(color[5]),
          16 * HexVal(color[6]) + HexVal(color[7]),
          255)

\* FillStyle tabulated over the palette.
Paint == [color \in Palette |-> FillStyle(color)]

\* One channel of "source-over": the source weighted by its alpha, the rest
\* taken from the destination.
OverChannel(s, sa, d, da, oa) ==
    IF oa = 0 THEN 0
    ELSE (s * sa * 255 + d * da * (255 - sa)) \div (oa * 255)

\* The blend of a source pixel over a destination pixel.
Blend(src, dst) ==
    LET oa == src.alpha + (dst.alpha * (255 - src.alpha)) \div 255
    IN  Pixel(OverChannel(src.red, src.alpha, dst.red, dst.alpha, oa),
              OverChannel(src.green, src.alpha, dst.green, dst.alpha, oa),
              OverChannel(src.blue, src.alpha, dst.blue, dst.alpha, oa),
              oa)

\* Mutant of SourceOver: the "copy" operator, the source alone.
SourceOnly(src, dst) == src

\* The default globalCompositeOperation of a 2D context, "source-over": a
\* fully opaque source replaces the destination, a fully transparent one
\* leaves it, anything between is blended.
SourceOver(src, dst) ==
    IF src.alpha = 255 THEN src
    ELSE IF src.alpha = 0 THEN dst
    ELSE Blend(src, dst)

\* -------------------------------------------------------------- surfaces
Coords(w, h) == (0..(w - 1)) \X (0..(h - 1))

\* The bitmap of a canvas whose width or height was just assigned.
BlankSurface(w, h) == [c \in Coords(w, h) |-> Transparent]

InRect(c, x, y, w, h) ==
    /\ x <= c[1] /\ c[1] < x + w
    /\ y <= c[2] /\ c[2] < y + h

\* ctx.fillRect(x, y, w, h) with fillStyle = color, clipped to the canvas.
FillRect(surface, x, y, w, h, color) ==
    LET paint == Paint[color]
    IN  [c \in DOMAIN surface |->
            IF InRect(c, x, y, w, h)
            THEN SourceOver(paint, surface[c])
            ELSE surface[c]]

\* ctx.clearRect(x, y, w, h).
ClearRect(surface, x, y, w, h) ==
    [c \in DOMAIN surface |->
        IF InRect(c, x, y, w, h) THEN Transparent ELSE surface[c]]

\* Mutant of DrawImage: "destination-over", the image drawn under the
\* destination's own pixels.
DrawImageUnder(dst, src) ==
    [c \in DOMAIN dst |-> SourceOver(dst[c], src[c])]

\* Mutant of DrawImage: the image replaces the destination.
DrawImageCopy(dst, src) ==
    [c \in DOMAIN dst |-> src[c]]

\* dstCtx.drawImage(srcEl, 0, 0, width, height) between canvases of one size.
DrawImage(dst, src) ==
    [c \in DOMAIN dst |-> SourceOver(src[c], dst[c])]

\* ----------------------------------------------- writeStateToBuffer parts
\* new Uint8ClampedArray(length): zero filled, indexed from 0.
Uint8ClampedArray(length) == [i \in 0..(length - 1) |-> 0]

Clamp(v) == IF v < 0 THEN 0 ELSE IF v > 255 THEN 255 ELSE v

\* pixelData[i] = v: a store outside the array's index range does nothing.
Store(pixelData, i, v) ==
    IF i \in DOMAIN pixelData THEN [pixelData EXCEPT ![i] = Clamp(v)]
    ELSE pixelData

\* Mutant of FlatIndex: x and y exchanged.
FlatIndexSwapped(x, y, w) == 4 * (x * w + y)

\* The first index of the four bytes of pixel (x, y).
FlatIndex(x, y, w) == 4 * (y * w + x)

\* The body of the forEach callback, for one pixelState = [x, y, color].
WritePixelState(pixelData, pixelState, w) ==
    LET x     == pixelState[1]
        y     == pixelState[2]
        color == ParsedColor[pixelState[3]]
        i     == FlatIndex(x, y, w)
        withRed   == Store(pixelData, i, color.red)
        withGreen == Store(withRed, i + 1, color.green)
        withBlue  == Store(withGreen, i + 2, color.blue)
    IN  Store(withBlue, i + 3, 255)

\* state.forEach(...): the callback applied to the elements in list order.
RECURSIVE ForEachPixelState(_, _, _)
ForEachPixelState(pixelData, state, w) ==
    IF state = << >> THEN pixelData
    ELSE ForEachPixelState(WritePixelState(pixelData, Head(state), w),
                           Tail(state), w)

RECURSIVE Reverse(_)
Reverse(seq) ==
    IF seq = << >> THEN << >> ELSE Append(Reverse(Tail(seq)), Head(seq))

\* Mutant of PixelDataOf: the list walked from its end (first write wins).
PixelDataReversed(state, w, h) ==
    ForEachPixelState(Uint8ClampedArray(4 * w * h), Reverse(state), w)

\* The pixelData array writeStateToBuffer builds from a state list.
PixelDataOf(state, w, h) ==
    ForEachPixelState(Uint8ClampedArray(4 * w * h), state, w)

\* new ImageData(pixelData, w, h): rows of w pixels, four bytes a pixel.
ImageData(pixelData, w, h) ==
    [c \in Coords(w, h) |->
        LET i == 4 * (c[2] * w + c[1])
        IN  Pixel(pixelData[i], pixelData[i + 1],
                  pixelData[i + 2], pixelData[i + 3])]

\* Mutant of PutImageData: the image composited over the old bitmap.
PutImageDataOver(surface, imageData) ==
    [c \in DOMAIN surface |->
        IF c \in DOMAIN imageData THEN SourceOver(imageData[c], surface[c])
        ELSE surface[c]]

\* ctx.putImageData(imageData, 0, 0): raw copy, no compositing.
PutImageData(surface, imageData) ==
    [c \in DOMAIN surface |->
        IF c \in DOMAIN imageData THEN imageData[c] ELSE surface[c]]

\* ------------------------------------------------------------ the state
VARIABLES
    width, height,       \* canvasse.width, canvasse.height
    el,                  \* "null" until init binds the canvases
    display,             \* the bitmap of el (ctx draws into it)
    buffer,              \* the bitmap of bufferEl (bufferCtx draws into it)
    isBufferDirty,
    isDisplayDirty,
    last,                \* history: the last call and its arguments
    load,                \* history: progress of an initial-load sequence
    methods,             \* hijack target: method name -> function
    closures,            \* the closure made by each hijack call
    marker,              \* target.targetMethod, or Absent
    stack                \* the wrappers being executed, innermost last

canvasVars == <<width, height, el, display, buffer,
                isBufferDirty, isDisplayDirty, last, load>>
hijackVars == <<methods, closures, marker, stack>>
vars == <<width, height, el, display, buffer, isBufferDirty,
          isDisplayDirty, last, load, methods, closures, marker, stack>>

NoSurface == BlankSurface(0, 0)

\* A history record: the call, its arguments where a property needs them,
\* for drawBufferToDisplay the call before it, and for the flushes the two
\* bitmaps as they were before drawDisplayToBuffer.
Call(op, x, y, color, state, after, display0, buffer0) ==
    [op |-> op, x |-> x, y |-> y, color |-> color, state |-> state,
     after |-> after, display0 |-> display0, buffer0 |-> buffer0]

Plain(op) == Call(op, 0, 0, NoColor, << >>, "", NoSurface, NoSurface)

NoLoad == [phase |-> "none", edits |-> << >>, state |-> << >>]

\* The sizes init is called with.
Sizes == {s \in (1..MaxPixels) \X (1..MaxPixels) : s[1] * s[2] <= MaxPixels}

\* The state lists of at most n elements over a set of pixel states.
RECURSIVE ListsUpTo(_, _)
ListsUpTo(S, n) ==
    IF n = 0 THEN { << >> }
    ELSE LET shorter == ListsUpTo(S, n - 1)
         IN  shorter \cup {Append(l, u) : l \in shorter, u \in S}

\* Pixel states inside the canvas, and within `margin` of it.
PixelStates(w, h, margin) ==
    ((0 - margin)..(w - 1 + margin)) \X ((0 - margin)..(h - 1 + margin))
        \X Palette

\* ------------------------------------------------------- canvasse actions
\* The object literal: no canvases yet, both flags false.
CanvasInit ==
    /\ width = 0
    /\ height = 0
    /\ el = "null"
    /\ display = NoSurface
    /\ buffer = NoSurface
    /\ isBufferDirty = FALSE
    /\ isDisplayDirty = FALSE
    /\ last = Plain("new")
    /\ load = NoLoad

HijackIdle == UNCHANGED hijackVars

\* init(el, width, height): assigning el.width and bufferEl.width leaves both
\* bitmaps transparent black.  The flags are not assigned.
init ==
    \E s \in Sizes :
        /\ width' = s[1]
        /\ height' = s[2]
        /\ el' = "canvas"
        /\ display' = BlankSurface(s[1], s[2])
        /\ buffer' = BlankSurface(s[1], s[2])
        /\ UNCHANGED <<isBufferDirty, isDisplayDirty>>
        /\ last' = Plain("init")
        /\ load' = [phase |-> "edits",
                    edits |-> [c \in Coords(s[1], s[2]) |-> NoColor],
                    state |-> << >>]
        /\ HijackIdle

\* Mutant of drawTileToDisplay: it raises the buffer's flag as well.
drawTileToDisplayBothFlags ==
    /\ el # "null"
    /\ \E x \in 0..(width - 1), y \in 0..(height - 1), color \in Palette :
        /\ display' = FillRect(display, x, y, 1, 1, color)
        /\ isDisplayDirty' = TRUE
        /\ isBufferDirty' = TRUE
        /\ UNCHANGED <<width, height, el, buffer>>
        /\ last' = Plain("drawTileToDisplay")
        /\ load' = IF load.phase = "edits"
                   THEN [load EXCEPT !.edits[<<x, y>>] = color]
                   ELSE NoLoad
    /\ HijackIdle

\* drawTileToDisplay(x, y, color)
drawTileToDisplay ==
    /\ el # "null"
    /\ \E x \in 0..(width - 1), y \in 0..(height - 1), color \in Palette :
        /\ display' = FillRect(display, x, y, 1, 1, color)
        /\ isDisplayDirty' = TRUE
        /\ UNCHANGED <<width, height, el, buffer, isBufferDirty>>
        /\ last' = Plain("drawTileToDisplay")
        /\ load' = IF load.phase = "edits"
                   THEN [load EXCEPT !.edits[<<x, y>>] = color]
                   ELSE NoLoad
    /\ HijackIdle

\* drawRectToDisplay(x, y, width, height, color)
drawRectToDisplay ==
    /\ el # "null"
    /\ \E x \in 0..(width - 1), y \in 0..(height - 1),
          w \in 1..width, h \in 1..height, color \in Palette :
        /\ display' = FillRect(display, x, y, w, h, color)
        /\ isDisplayDirty' = TRUE
        /\ UNCHANGED <<width, height, el, buffer, isBufferDirty>>
        /\ last' = Plain("drawRectToDisplay")
        /\ load' = NoLoad
    /\ HijackIdle

\* clearRectFromDisplay(x, y, width, height)
clearRectFromDisplay ==
    /\ el # "null"
    /\ \E x \in 0..(width - 1), y \in 0..(height - 1),
          w \in 1..width, h \in 1..height :
        /\ display' = ClearRect(display, x, y, w, h)
        /\ isDisplayDirty' = TRUE
        /\ UNCHANGED <<width, height, el, buffer, isBufferDirty>>
        /\ last' = Plain("clearRectFromDisplay")
        /\ load' = NoLoad
    /\ HijackIdle

\* drawTileToBuffer(x, y, color)
drawTileToBuffer ==
    /\ el # "null"
    /\ \E x \in 0..(width - 1), y \in 0..(height - 1), color \in Palette :
        /\ buffer' = FillRect(buffer, x, y, 1, 1, color)
        /\ isBufferDirty' = TRUE
        /\ UNCHANGED <<width, height, el, display, isDisplayDirty>>
        /\ last' = Call("drawTileToBuffer", x, y, color, << >>, "",
                        NoSurface, NoSurface)
        /\ load' = NoLoad
    /\ HijackIdle

\* What drawBufferToDisplay remembers of the call before it.
AfterCall ==
    IF last.op \in {"drawTileToBuffer", "drawDisplayToBuffer"}
    THEN [last EXCEPT !.op = "drawBufferToDisplay", !.after = last.op]
    ELSE Plain("drawBufferToDisplay")

\* drawBufferToDisplay()
drawBufferToDisplay ==
    /\ el # "null"
    /\ display' = DrawImage(display, buffer)
    /\ isBufferDirty' = FALSE
    /\ UNCHANGED <<width, height, el, buffer, isDisplayDirty>>
    /\ last' = AfterCall
    /\ load' = IF load.phase = "captured"
               THEN [load EXCEPT !.phase = "shown"]
               ELSE NoLoad
    /\ HijackIdle

\* drawDisplayToBuffer()
drawDisplayToBuffer ==
    /\ el # "null"
    /\ buffer' = DrawImage(buffer, display)
    /\ isDisplayDirty' = FALSE
    /\ UNCHANGED <<width, height, el, display, isBufferDirty>>
    /\ last' = Call("drawDisplayToBuffer", 0, 0, NoColor, << >>, "",
                    display, buffer)
    /\ load' = IF load.phase = "materialized"
               THEN [load EXCEPT !.phase = "captured"]
               ELSE NoLoad
    /\ HijackIdle

\* drawTileAt(x, y, color): drawTileToBuffer, then drawBufferToDisplay.
drawTileAt ==
    /\ el # "null"
    /\ \E x \in 0..(width - 1), y \in 0..(height - 1), color \in Palette :
        LET drawn == FillRect(buffer, x, y, 1, 1, color)
        IN  /\ buffer' = drawn
            /\ display' = DrawImage(display, drawn)
            /\ isBufferDirty' = FALSE
            /\ UNCHANGED <<width, height, el, isDisplayDirty>>
            /\ last' = Call("drawTileAt", x, y, color, << >>, "",
                            NoSurface, NoSurface)
            /\ load' = NoLoad
    /\ HijackIdle

\* writeStateToBuffer(state): neither flag is assigned.
WriteStateToBuffer(state) ==
    /\ el # "null"
    /\ LET pixelData == PixelDataOf(state, width, height)
           imageData == ImageData(pixelData, width, height)
       IN  buffer' = PutImageData(buffer, imageData)
    /\ UNCHANGED <<width, height, el, display, isBufferDirty, isDisplayDirty>>
    /\ last' = Call("writeStateToBuffer", 0, 0, NoColor, state, "",
                    NoSurface, NoSurface)
    /\ load' = IF load.phase = "edits"
               THEN [load EXCEPT !.phase = "materialized", !.state = state]
               ELSE NoLoad
    /\ HijackIdle

\* writeStateToBuffer called with pixel states inside the canvas.
writeStateToBuffer ==
    \E state \in ListsUpTo(PixelStates(width, height, 0), MaxLiveUpdates) :
        WriteStateToBuffer(state)

\* The same call with the longer lists.
writeLongStateToBuffer ==
    \E state \in ListsUpTo(PixelStates(width, height, 0), MaxUpdates) :
        WriteStateToBuffer(state)

\* writeStateToBuffer called on fresh canvases with pixel states that may
\* lie up to MaxMargin outside the canvas.
writeStrayStateToBuffer ==
    /\ last.op = "init"
    /\ \E state \in ListsUpTo(PixelStates(width, height, MaxMargin),
                              MaxStrayUpdates) :
        WriteStateToBuffer(state)

\* ---------------------------------------------------------- utils.hijack
\* The target object's methods, and the functions a property can hold: a
\* method the object was built with, or the wrapper made by the k-th hijack.
MethodNames == {"draw", "erase"}

Original(name) == [kind |-> "original", name |-> name, id |-> 0]
Wrapper(k) == [kind |-> "wrapper", name |-> "", id |-> k]
Absent == [kind |-> "absent", name |-> "", id |-> 0]

\* What a decorator fn does with this.targetMethod: invoke it once and go
\* on, or never invoke it.
FnKinds == {"callsTarget", "replaces"}

HijackInit ==
    /\ methods = [name \in MethodNames |-> Original(name)]
    /\ closures = << >>
    /\ marker = Absent
    /\ stack = << >>

CanvasIdle == UNCHANGED canvasVars

Top == stack[Len(stack)]

\* Calling function f on the target: a wrapper sets target.targetMethod and
\* applies its fn; an original method runs without touching the marker.
Enter(f, frames) ==
    IF f.kind = "wrapper"
    THEN /\ marker' = closures[f.id].targetMethod
         /\ stack' = Append(frames, [wrapper |-> f.id, pc |-> "fn"])
    ELSE /\ marker' = marker
         /\ stack' = frames

\* hijack(target, methodName, fn)
hijack ==
    /\ stack = << >>
    /\ Len(closures) < MaxHijacks
    /\ \E methodName \in MethodNames, fn \in FnKinds :
        /\ closures' = Append(closures, [targetMethod |-> methods[methodName],
                                         fn |-> fn])
        /\ methods' = [methods EXCEPT ![methodName] = Wrapper(Len(closures) + 1)]
    /\ UNCHANGED <<marker, stack>>
    /\ CanvasIdle

\* target[methodName](...) called from outside.
callMethod ==
    /\ stack = << >>
    /\ \E methodName \in MethodNames : Enter(methods[methodName], stack)
    /\ UNCHANGED <<methods, closures>>
    /\ CanvasIdle

\* fn invokes this.targetMethod: whatever target.targetMethod holds now.
fnCallsTarget ==
    /\ stack # << >>
    /\ Top.pc = "fn"
    /\ closures[Top.wrapper].fn = "callsTarget"
    /\ marker # Absent
    /\ Enter(marker, [stack EXCEPT ![Len(stack)].pc = "resumed"])
    /\ UNCHANGED <<methods, closures>>
    /\ CanvasIdle

\* fn returns to its wrapper, which deletes target.targetMethod and returns.
fnReturns ==
    /\ stack # << >>
    /\ \/ Top.pc = "resumed"
       \/ Top.pc = "fn" /\ closures[Top.wrapper].fn = "replaces"
    /\ marker' = Absent
    /\ stack' = SubSeq(stack, 1, Len(stack) - 1)
    /\ UNCHANGED <<methods, closures>>
    /\ CanvasIdle

Init == CanvasInit /\ HijackInit

Next ==
    \/ init
    \/ drawTileAt
    \/ drawTileToDisplay
    \/ drawRectToDisplay
    \/ clearRectFromDisplay
    \/ drawTileToBuffer
    \/ drawBufferToDisplay
    \/ drawDisplayToBuffer
    \/ writeStateToBuffer

Spec == Init /\ [][Next]_vars

\* The loader on its own: the buffer is drawn to and loaded, in any order.
NextLoad == init \/ drawTileToBuffer \/ writeLongStateToBuffer

SpecLoad == Init /\ [][NextLoad]_vars

\* The loader applied once to a fresh canvas, coordinates out of range too.
NextStray == init \/ writeStrayStateToBuffer

SpecStray == Init /\ [][NextStray]_vars

NextHijack == hijack \/ callMethod \/ fnCallsTarget \/ fnReturns

SpecHijack == Init /\ [][NextHijack]_vars

\* ------------------------------------------------------------ properties
\* The pixel a "#rrggbb" color names when drawn fully opaque.
ColorPixel(color) ==
    Pixel(16 * HexVal(color[2]) + HexVal(color[3]),
          16 * HexVal(color[4]) + HexVal(color[5]),
          16 * HexVal(color[6]) + HexVal(color[7]),
          255)

\* The red, green and blue parseHexColor gives, with alpha 255.
ParsedPixel(color) ==
    LET parsed == parseHexColor(color)
    IN  Pixel(parsed.red, parsed.green, parsed.blue, 255)

TheCoords == Coords(width, height)

Targets(pixelState, c) == pixelState[1] = c[1] /\ pixelState[2] = c[2]

Listed(state, c) == \E k \in DOMAIN state : Targets(state[k], c)

\* The color of the last element of the list that targets c.
LastColorAt(state, c) ==
    LET k == CHOOSE i \in DOMAIN state :
                 /\ Targets(state[i], c)
                 /\ \A j \in DOMAIN state : j > i => ~Targets(state[j], c)
    IN  state[k][3]

\* What a list of in-range pixel states materializes to at c.
Materialized(state, c) ==
    IF Listed(state, c) THEN ColorPixel(LastColorAt(state, c)) ELSE Transparent

FlushedAfter(op) == last.op = "drawBufferToDisplay" /\ last.after = op

\* C1: after drawTileToBuffer(x, y, color) immediately followed by
\* drawBufferToDisplay() (and after the deprecated drawTileAt, which is the
\* two in one call), the display pixel at (x, y) has the red, green and blue
\* of the parsed color and alpha 255, whatever both canvases held before.
C1_TileThenFlushShowsColor ==
    (FlushedAfter("drawTileToBuffer") \/ last.op = "drawTileAt")
        => display[<<last.x, last.y>>] = ParsedPixel(last.color)

\* C1 witness: the two calls were made on a display that already showed
\* another color somewhere (it was drawn to directly and not captured).
C1_Witness ==
    /\ FlushedAfter("drawTileToBuffer")
    /\ isDisplayDirty
    /\ display[<<last.x, last.y>>] = ParsedPixel(last.color)
    /\ \E c \in TheCoords : IsOpaque(display[c]) /\ display[c] # buffer[c]

\* C2 as claimed: drawDisplayToBuffer() then drawBufferToDisplay() leaves
\* the display exactly as it was before the two calls.
C2_FlushPairKeepsDisplay ==
    FlushedAfter("drawDisplayToBuffer") => display = last.display0

\* C2 as amended: after drawDisplayToBuffer() then drawBufferToDisplay(),
\* every display pixel that was fully opaque before the two calls is
\* unchanged, and every display pixel that was fully transparent holds the
\* pixel the buffer had at that coordinate before the two calls.
C2_FlushPairKeepsOpaqueDisplay ==
    FlushedAfter("drawDisplayToBuffer") =>
        \A c \in TheCoords :
            /\ IsOpaque(last.display0[c]) => display[c] = last.display0[c]
            /\ last.display0[c] = Transparent => display[c] = last.buffer0[c]

\* C2 witness: the pair ran where one coordinate was transparent on the
\* display and opaque on the buffer.
C2_Witness ==
    /\ FlushedAfter("drawDisplayToBuffer")
    /\ \E c \in TheCoords :
        last.display0[c] = Transparent /\ IsOpaque(last.buffer0[c])

\* C3: writeStateToBuffer replaces the whole buffer: after the call every
\* coordinate of the canvas that no element of the (in-range) list targets
\* is transparent black on the buffer, whatever the buffer held before.
C3_UnlistedPixelsAreCleared ==
    last.op = "writeStateToBuffer" =>
        \A c \in TheCoords :
            ~Listed(last.state, c) => buffer[c] = Transparent

\* C3 witness: a non-empty list that leaves a coordinate out was loaded
\* into a buffer that had been drawn to.
C3_Witness ==
    /\ last.op = "writeStateToBuffer"
    /\ isBufferDirty
    /\ last.state # << >>
    /\ \E c \in TheCoords : ~Listed(last.state, c) /\ buffer[c] = Transparent

\* C4: writeStateToBuffer applies the list in order, last write wins: after
\* the call every coordinate the list targets holds, on the buffer, the
\* opaque color of the last element that targets it.
C4_LastWriteWins ==
    last.op = "writeStateToBuffer" =>
        \A c \in TheCoords :
            Listed(last.state, c) =>
                buffer[c] = ColorPixel(LastColorAt(last.state, c))

\* C4 witness: a list whose two elements target one coordinate with
\* different colors was loaded.
C4_Witness ==
    /\ last.op = "writeStateToBuffer"
    /\ Len(last.state) = 2
    /\ Targets(last.state[1], <<last.state[2][1], last.state[2][2]>>)
    /\ last.state[1][3] # last.state[2][3]
    /\ buffer[<<last.state[2][1], last.state[2][2]>>]
           = ColorPixel(last.state[2][3])

\* C5 as claimed: immediately after drawBufferToDisplay() every display
\* pixel equals the buffer pixel at the same coordinate, so that earlier
\* direct writes to the display are lost.
C5_FlushOverwritesDisplay ==
    last.op = "drawBufferToDisplay" => display = buffer

DisplayWriters ==
    {"drawTileToDisplay", "drawRectToDisplay", "clearRectFromDisplay"}

\* C6: the display writers leave every buffer pixel and isBufferDirty as
\* they were, drawTileToBuffer leaves every display pixel and isDisplayDirty
\* as they were, and the only calls that change the display without being a
\* direct write to it (or init) are drawBufferToDisplay and drawTileAt.
C6_WritesStayOnTheirSurface ==
    [][ /\ last'.op \in DisplayWriters =>
              buffer' = buffer /\ isBufferDirty' = isBufferDirty
        /\ last'.op = "drawTileToBuffer" =>
              display' = display /\ isDisplayDirty' = isDisplayDirty
        /\ display' # display =>
              last'.op \in DisplayWriters
                  \cup {"init", "drawBufferToDisplay", "drawTileAt"} ]_vars

\* C6 witness: a direct write to the display was made while the buffer held
\* an opaque pixel the display does not show and the buffer was not dirty.
C6_Witness ==
    /\ last.op \in DisplayWriters
    /\ ~isBufferDirty
    /\ \E c \in TheCoords : IsOpaque(buffer[c]) /\ display[c] # buffer[c]

\* C7 as claimed: the flags track unflushed changes.  A call that changes
\* the buffer's contents leaves isBufferDirty true, a call that changes the
\* display's contents leaves isDisplayDirty true (init, which makes new
\* bitmaps, and the flush that writes the surface or ends the call are left
\* aside), and a flag once true stays true until its own flush.
C7_DirtyFlagsTrackChanges ==
    [][ /\ (buffer' # buffer
              /\ last'.op \notin {"init", "drawDisplayToBuffer", "drawTileAt"})
           => isBufferDirty'
        /\ (display' # display
              /\ last'.op \notin {"init", "drawBufferToDisplay", "drawTileAt"})
           => isDisplayDirty'
        /\ (isBufferDirty
              /\ last'.op \notin {"drawBufferToDisplay", "drawTileAt"})
           => isBufferDirty'
        /\ (isDisplayDirty /\ last'.op # "drawDisplayToBuffer")
           => isDisplayDirty' ]_vars

\* C8: on fresh canvases, after drawTileToDisplay calls, writeStateToBuffer
\* of a list, drawDisplayToBuffer() and drawBufferToDisplay(), every
\* coordinate drawn on the display holds the color of its latest draw on
\* both canvases, and every other coordinate holds on both what the list
\* materializes to.
C8_LoadKeepsDisplayEdits ==
    load.phase = "shown" =>
        \A c \in TheCoords :
            LET expected == IF load.edits[c] # NoColor
                            THEN ColorPixel(load.edits[c])
                            ELSE Materialized(load.state, c)
            IN  display[c] = expected /\ buffer[c] = expected

\* C8 witness: the sequence ran with a display edit at a coordinate the
\* list gives another color or leaves out, and a listed coordinate that
\* was not edited.
C8_Witness ==
    /\ load.phase = "shown"
    /\ \E c \in TheCoords :
        /\ load.edits[c] # NoColor
        /\ Materialized(load.state, c) # ColorPixel(load.edits[c])
    /\ \E c \in TheCoords :
        load.edits[c] = NoColor /\ Listed(load.state, c)

InCanvas(pixelState) ==
    /\ pixelState[1] \in 0..(width - 1)
    /\ pixelState[2] \in 0..(height - 1)

IndexInArray(pixelState) ==
    FlatIndex(pixelState[1], pixelState[2], width)
        \in 0..(4 * width * height - 1)

\* C9 as claimed: for every element of the list whose coordinate is outside
\* the canvas, the flat index 4 * (y * width + x) lies outside the array,
\* so the element changes no pixel of the canvas.
C9_StrayIndexOutOfRange ==
    last.op = "writeStateToBuffer" =>
        /\ \A k \in DOMAIN last.state :
              ~InCanvas(last.state[k]) => ~IndexInArray(last.state[k])
        /\ (\A k \in DOMAIN last.state : ~InCanvas(last.state[k]))
              => buffer = BlankSurface(width, height)

\* C9 as amended: the flat index lies outside the array for every element
\* whose x is in [0, width) and whose y is outside [0, height), and a list
\* of such elements leaves the buffer transparent; an element whose x is
\* out of range and for which 0 <= y * width + x < width * height is
\* written to the pixel ((y * width + x) mod width, (y * width + x) div
\* width) of the canvas.
C9_StrayRowsOutOfRange ==
    last.op = "writeStateToBuffer" =>
        LET state == last.state
            OffRows(u) == u[1] \in 0..(width - 1) /\ u[2] \notin 0..(height - 1)
            cell(u) == u[2] * width + u[1]
        IN  /\ \A k \in DOMAIN state :
                  OffRows(state[k]) => ~IndexInArray(state[k])
            /\ (\A k \in DOMAIN state : OffRows(state[k]))
                  => buffer = BlankSurface(width, height)
            /\ (Len(state) > 0 /\ ~InCanvas(state[Len(state)])
                  /\ cell(state[Len(state)]) \in 0..(width * height - 1))
               => buffer[<<cell(state[Len(state)]) % width,
                           cell(state[Len(state)]) \div width>>]
                      = ColorPixel(state[Len(state)][3])

\* C9 witness: a list with an element above or below the canvas, in a
\* column of the canvas, was loaded.
C9_Witness ==
    /\ last.op = "writeStateToBuffer"
    /\ \E k \in DOMAIN last.state :
        /\ last.state[k][1] \in 0..(width - 1)
        /\ last.state[k][2] \notin 0..(height - 1)
    /\ buffer = BlankSurface(width, height)

\* C10 as claimed: while a decorator fn runs (it is the innermost frame),
\* target.targetMethod is the function its hijack call replaced, before and
\* after fn invokes this.targetMethod and however the wrappers nest; and
\* when no wrapped call is running target has no targetMethod.
C10_MarkerHoldsReplacedMethod ==
    IF stack = << >> THEN marker = Absent
    ELSE marker = closures[Top.wrapper].targetMethod

====
